---- MODULE Spec2Model ----
(***************************************************************************)
(* A model of the calculator core (crates/calculator-core): the scanner    *)
(* (token.rs), the token cursor (token.rs), the precedence-climbing parser *)
(* (expr.rs, parse.rs), the tree-walking evaluator (expr.rs, eval.rs) and  *)
(* the read-eval-print loop that owns one Environment (main.rs).           *)
(*                                                                         *)
(* Text is a sequence of characters; a character is a one-element string,  *)
(* or the name of a code point ("U+00E9") for the non-ASCII ones.  Byte    *)
(* offsets are kept apart from character offsets, as str::split_at takes   *)
(* the former and Iterator::position gives the latter.                     *)
(***************************************************************************)
EXTENDS Integers, Sequences, FiniteSets, TLC

VARIABLES
    text,       \* scanner specification: the input string
    scanned,    \* scanner specification: what tokens(text) ended with
    toks,       \* parser specification: the token slice of the TokenStream
    parsed,     \* parser specification: what the parse ended with
    pc,         \* session: position in main's loop
    env,        \* session: Environment.variables
    expr,       \* session: the Expr the current line parsed to
    result,     \* session: what eval returned for it
    prevEnv,    \* session: Environment.variables when that eval started
    latest,     \* session: for each name, the value last passed to set_variable
    stream,     \* stepwise parser: TokenStream.tokens, what is left of the slice
    stack,      \* stepwise parser: the activation records of the parser's functions
    ret         \* stepwise parser: the ParseResult a callee has just returned

vars == <<text, scanned, toks, parsed, pc, env, expr, result, prevEnv, latest, stream, stack, ret>>

None == <<>>
Some(x) == <<x>>

(***************************************************************************)
(* Characters and strings                                                  *)
(***************************************************************************)
Digits == {"0", "1", "2", "3", "4", "5", "6", "7", "8", "9"}

\* U+00E9 (e acute) and U+3042 (hiragana a) are XID_Start; U+0301 (combining
\* acute) is XID_Continue only; U+00D7 (multiplication sign) is neither.
len_utf8(c) ==
    CASE c \in {"U+00E9", "U+0301", "U+00D7"} -> 2
      [] c = "U+3042" -> 3
      [] OTHER -> 1

is_ascii_digit(c) == c \in Digits

is_ascii_whitespace(c) == c \in {" ", "\t", "\n", "\r"}

is_xid_start(c) == c \in {"a", "b", "f", "o", "p", "w", "x", "U+00E9", "U+3042"}

is_xid_continue(c) == is_xid_start(c) \/ c \in Digits \/ c \in {"_", "U+0301"}

RECURSIVE str_len(_)
\* str::len: the length in bytes
str_len(s) == IF s = <<>> THEN 0 ELSE len_utf8(Head(s)) + str_len(Tail(s))

\* Iterator::position over s.chars(): the index, in characters, of the first
\* character the closure accepts; hits[i] is the closure's value on the i-th
position(hits) ==
    IF \E i \in 1..Len(hits) : hits[i]
    THEN Some((CHOOSE i \in 1..Len(hits) : hits[i] /\ \A j \in 1..(i - 1) : ~hits[j]) - 1)
    ELSE None

unwrap_or(opt, d) == IF opt = None THEN d ELSE opt[1]

\* str::is_char_boundary
is_char_boundary(s, mid) == \E k \in 0..Len(s) : str_len(SubSeq(s, 1, k)) = mid

\* str::split_at: panics when mid is not on a character boundary (or past the end)
split_at(s, mid) ==
    IF is_char_boundary(s, mid)
    THEN LET k == CHOOSE k \in 0..Len(s) : str_len(SubSeq(s, 1, k)) = mid
         IN  [panic |-> FALSE, fst |-> SubSeq(s, 1, k), snd |-> SubSeq(s, k + 1, Len(s))]
    ELSE [panic |-> TRUE, fst |-> <<>>, snd |-> <<>>]

(***************************************************************************)
(* Tokens (token.rs)                                                       *)
(***************************************************************************)
Token(kind, lit) == <<kind, lit>>
Kind(t) == t[1]
Lit(t) == t[2]
Sym(kind) == Token(kind, <<>>)

ScanOk(buffer) == [kind |-> "Ok", tokens |-> buffer]
ScanErr == [kind |-> "Err", tokens |-> <<>>]
ScanPanic == [kind |-> "Panic", tokens |-> <<>>]

is_symbol(c) == c \in {"+", "-", "/", "%", "(", ")", ",", "="}

symbol_kind(c) ==
    CASE c = "+" -> "Plus"
      [] c = "-" -> "Minus"
      [] c = "/" -> "Slash"
      [] c = "%" -> "Percent"
      [] c = "(" -> "LParen"
      [] c = ")" -> "RParen"
      [] c = "," -> "Comma"
      [] c = "=" -> "Equal"

starts_with_astast(s) == Len(s) >= 2 /\ s[1] = "*" /\ s[2] = "*"

\* |c| !c.is_ascii_digit() and |c| !is_xid_continue(c) over s.chars()
not_digit(s) == [i \in 1..Len(s) |-> ~is_ascii_digit(s[i])]
not_xid_continue(s) == [i \in 1..Len(s) |-> ~is_xid_continue(s[i])]

\* The identifier arm: the byte offset at which the lexeme is cut off
ident_pos(s) ==
    LET slen == len_utf8(Head(s))
        s1 == split_at(s, slen).snd
    IN  unwrap_or(position(not_xid_continue(s1)), str_len(s1)) + slen

RECURSIVE scan_loop(_, _)
\* The while loop of tokens(): s is what is left of the input
scan_loop(s, buffer) ==
    IF s = <<>> THEN ScanOk(buffer)
    ELSE LET c == Head(s) IN
         CASE is_ascii_digit(c) ->
                LET pos == unwrap_or(position(not_digit(s)), str_len(s))
                    sp == split_at(s, pos)
                IN  IF sp.panic THEN ScanPanic
                    ELSE scan_loop(sp.snd, Append(buffer, Token("NumLit", sp.fst)))
           [] is_symbol(c) ->
                scan_loop(split_at(s, 1).snd, Append(buffer, Sym(symbol_kind(c))))
           [] c = "*" ->
                IF starts_with_astast(s)
                THEN scan_loop(split_at(s, 2).snd, Append(buffer, Sym("AstAst")))
                ELSE scan_loop(split_at(s, 1).snd, Append(buffer, Sym("Ast")))
           [] is_ascii_whitespace(c) ->
                scan_loop(split_at(s, 1).snd, buffer)
           [] is_xid_start(c) ->
                LET sp == split_at(s, ident_pos(s))
                IN  IF sp.panic THEN ScanPanic
                    ELSE scan_loop(sp.snd, Append(buffer, Token("VarLit", sp.fst)))
           [] OTHER -> ScanErr

tokens(s) == scan_loop(s, <<>>)

(***************************************************************************)
(* Token cursor (token.rs, TokenStream).  A result carries the stream as   *)
(* the call left it: the stream is a &mut argument, so what a failed call  *)
(* consumed stays consumed.                                                *)
(***************************************************************************)
Ok(v, input) == [ok |-> TRUE, val |-> v, rest |-> input]
Err(e, input) == [ok |-> FALSE, val |-> e, rest |-> input]

peek(input) ==
    IF input = <<>> THEN Err("UnexpectedEndOfInput", input) ELSE Ok(Head(input), input)

consume(input) ==
    IF input # <<>> THEN Ok(Head(input), Tail(input))
    ELSE Err("UnexpectedEndOfInput", input)

eof(input) == IF input = <<>> THEN Ok(<<>>, input) ELSE Err("UnexpectedToken", input)

(***************************************************************************)
(* Expression trees (expr.rs, enum Expr)                                   *)
(***************************************************************************)
Int_(n) == <<"Int", n>>
Binary(lhs, op, rhs) == <<"Binary", lhs, op, rhs>>
Unary(op, e) == <<"Unary", op, e>>
Paren(e) == <<"Paren", e>>
Variable(name) == <<"Variable", name>>
Call(name, args) == <<"Call", name, args>>
Tag(e) == e[1]

(***************************************************************************)
(* Literals and operators (expr.rs)                                        *)
(***************************************************************************)
digit_value(c) == CHOOSE d \in 0..9 : ToString(d) = c

RECURSIVE str_to_int(_)
\* the value of a run of decimal digits, most significant first
str_to_int(s) ==
    IF s = <<>> THEN 0 ELSE str_to_int(SubSeq(s, 1, Len(s) - 1)) * 10 + digit_value(s[Len(s)])

\* impl Parse for BigInt
BigInt_parse(input) ==
    LET p == peek(input) IN
    IF ~p.ok THEN p
    ELSE IF Kind(p.val) = "NumLit"
         THEN LET c == consume(input) IN
              IF Lit(c.val) # <<>> /\ \A i \in 1..Len(Lit(c.val)) : is_ascii_digit(Lit(c.val)[i])
              THEN Ok(str_to_int(Lit(c.val)), c.rest)
              ELSE Err("ParseBigIntError", c.rest)
         ELSE Err("ExpectedNum", input)

PrecAny == 0
PrecAssign == 1
PrecAdditive == 2
PrecMultiplicative == 3
PrecExponent == 4

BinaryOp_peek(input) ==
    LET p == peek(input) IN
    IF ~p.ok THEN p
    ELSE CASE Kind(p.val) = "Plus" -> Ok("Add", input)
           [] Kind(p.val) = "Minus" -> Ok("Sub", input)
           [] Kind(p.val) = "Ast" -> Ok("Mul", input)
           [] Kind(p.val) = "Slash" -> Ok("Div", input)
           [] Kind(p.val) = "Percent" -> Ok("Rem", input)
           [] Kind(p.val) = "AstAst" -> Ok("Pow", input)
           [] Kind(p.val) = "Equal" -> Ok("Assign", input)
           [] OTHER -> Err("ExpectedBinary", input)

\* impl Parse for BinaryOp
BinaryOp_parse(input) ==
    LET op == BinaryOp_peek(input) IN
    IF ~op.ok THEN op
    ELSE LET c == consume(input) IN
         IF ~c.ok THEN c ELSE Ok(op.val, c.rest)

precedence(op) ==
    CASE op \in {"Add", "Sub"} -> PrecAdditive
      [] op \in {"Mul", "Div", "Rem"} -> PrecMultiplicative
      [] op = "Pow" -> PrecExponent
      [] op = "Assign" -> PrecAssign

\* a plausible slip: a token that is no operator taken for one of the lowest
\* precedence instead of ending the loop
peek_precedence_any(input) ==
    LET op == BinaryOp_peek(input) IN
    IF op.ok THEN Some(precedence(op.val))
    ELSE IF op.val = "ExpectedBinary" THEN Some(PrecAny) ELSE None

peek_precedence(input) ==
    LET op == BinaryOp_peek(input) IN
    IF op.ok THEN Some(precedence(op.val)) ELSE None

\* a plausible slip: ** left out of the right-associative operators
is_right_assign_only(op) == op = "Assign"

is_right(op) == op \in {"Pow", "Assign"}

\* impl Parse for UnaryOp
UnaryOp_parse(input) ==
    LET p == peek(input) IN
    IF ~p.ok THEN p
    ELSE IF Kind(p.val) \in {"Plus", "Minus"}
         THEN LET c == consume(input) IN
              IF ~c.ok THEN c
              ELSE Ok(IF Kind(p.val) = "Plus" THEN "Plus" ELSE "Minus", c.rest)
         ELSE Err("ExpectedUnary", input)

(***************************************************************************)
(* The parser (expr.rs): parse_expr, parse_rexpr with its inner loop       *)
(* (absorb_rhs), parse_unary with its argument loop (parse_args)           *)
(***************************************************************************)
RECURSIVE parse_expr(_), parse_rexpr(_, _, _), absorb_rhs(_, _, _), parse_unary(_),
          parse_args(_, _)

parse_expr(input) ==
    LET lhs == parse_unary(input) IN
    IF ~lhs.ok THEN lhs ELSE parse_rexpr(lhs.rest, lhs.val, PrecAny)

\* lines 186-192: the loop that takes tighter operators into the right operand
absorb_rhs(input, rhs, op) ==
    LET next == peek_precedence(input) IN
    IF next = None THEN Ok(rhs, input)
    ELSE IF next[1] > precedence(op) \/ (next[1] = precedence(op) /\ is_right(op))
         THEN LET r == parse_rexpr(input, rhs, next[1]) IN
              IF ~r.ok THEN r ELSE absorb_rhs(r.rest, r.val, op)
         ELSE Ok(rhs, input)

parse_rexpr(input, lhs, base) ==
    LET p == peek_precedence(input) IN
    IF p = None THEN Ok(lhs, input)
    ELSE IF p[1] < base THEN Ok(lhs, input)
    ELSE LET op == BinaryOp_parse(input) IN
         IF ~op.ok THEN op
         ELSE LET u == parse_unary(op.rest) IN
              IF ~u.ok THEN u
              ELSE LET rhs == absorb_rhs(u.rest, u.val, op.val) IN
                   IF ~rhs.ok THEN rhs
                   ELSE parse_rexpr(rhs.rest, Binary(lhs, op.val, rhs.val), base)

\* lines 221-236: the loop over a call's arguments
parse_args(input, args) ==
    LET e == parse_expr(input) IN
    IF e.ok
    THEN LET c == consume(e.rest) IN
         IF ~c.ok THEN c
         ELSE CASE Kind(c.val) = "Comma" -> parse_args(c.rest, Append(args, e.val))
                [] Kind(c.val) = "RParen" -> Ok(Append(args, e.val), c.rest)
                [] OTHER -> Err("ExpectedRParen", c.rest)
    ELSE LET c == consume(e.rest) IN
         IF ~c.ok THEN c
         ELSE IF Kind(c.val) = "RParen" THEN Ok(args, c.rest)
              ELSE Err("ExpectedRParen", c.rest)

parse_unary(input) ==
    LET token == peek(input) IN
    IF ~token.ok THEN token
    ELSE CASE Kind(token.val) \in {"Plus", "Minus"} ->
                LET op == UnaryOp_parse(input) IN
                IF ~op.ok THEN op
                ELSE LET e == parse_unary(op.rest) IN
                     IF ~e.ok THEN e ELSE Ok(Unary(op.val, e.val), e.rest)
           [] Kind(token.val) = "NumLit" ->
                LET n == BigInt_parse(input) IN
                IF ~n.ok THEN n ELSE Ok(Int_(n.val), n.rest)
           [] Kind(token.val) = "LParen" ->
                LET e == parse_expr(consume(input).rest) IN
                IF ~e.ok THEN e
                ELSE LET c == consume(e.rest) IN
                     IF ~c.ok THEN c
                     ELSE IF Kind(c.val) = "RParen" THEN Ok(Paren(e.val), c.rest)
                          ELSE Err("ExpectedRParen", c.rest)
           [] Kind(token.val) = "VarLit" ->
                LET ident == consume(input)
                    t == peek(ident.rest)
                IN  IF t.ok /\ Kind(t.val) = "LParen"
                    THEN LET args == parse_args(consume(ident.rest).rest, <<>>) IN
                         IF ~args.ok THEN args
                         ELSE Ok(Call(Lit(ident.val), args.val), args.rest)
                    ELSE Ok(Variable(Lit(ident.val)), ident.rest)
           [] OTHER -> Err("ExpectedUnary", input)

\* parse.rs lines 11-14: what parse_from_str does with the scanned tokens
parse_tokens(tokens_) ==
    LET t == parse_expr(tokens_) IN
    IF ~t.ok THEN t
    ELSE LET e == eof(t.rest) IN
         IF ~e.ok THEN e ELSE Ok(t.val, e.rest)

\* parse.rs: parse_from_str::<Expr>; a panic of the scanner ends the process
parse_from_str(input) ==
    LET ts == tokens(input) IN
    CASE ts.kind = "Panic" -> [ok |-> FALSE, val |-> "Panic", rest |-> <<>>]
      [] ts.kind = "Err" -> Err("UnexpectedToken", <<>>)
      [] OTHER -> parse_tokens(ts.tokens)

(***************************************************************************)
(* Environment (eval.rs).  The variables map is the set of its             *)
(* <<key, value>> entries, at most one per key.                            *)
(***************************************************************************)
has_variable(variables, ident) == \E p \in variables : p[1] = ident

value_of(variables, ident) == (CHOOSE p \in variables : p[1] = ident)[2]

\* Environment::get_variable
get_variable(variables, ident) ==
    IF has_variable(variables, ident)
    THEN [ok |-> TRUE, val |-> value_of(variables, ident)]
    ELSE [ok |-> FALSE, val |-> "UndefinedVariable"]

\* a plausible slip: entry(ident).or_insert(expr), which keeps an old value
set_variable_keep_first(variables, ident, value) ==
    IF has_variable(variables, ident) THEN variables ELSE variables \cup {<<ident, value>>}

\* Environment::set_variable: *entry(ident).or_default() = expr
set_variable(variables, ident, value) ==
    {p \in variables : p[1] # ident} \cup {<<ident, value>>}

(***************************************************************************)
(* The evaluator (expr.rs, impl Eval for Expr).  A result carries the      *)
(* variables as the call left them (env is a &mut argument) and `sets`,    *)
(* the calls of set_variable it made, in order.                            *)
(***************************************************************************)
EvOk(v, variables, sets) == [ok |-> TRUE, val |-> v, env |-> variables, sets |-> sets]
EvErr(e, variables, sets) == [ok |-> FALSE, val |-> e, env |-> variables, sets |-> sets]

abs(n) == IF n < 0 THEN -n ELSE n

\* BigInt division truncates towards zero; the remainder has the dividend's sign
bigint_div(l, r) ==
    IF (l < 0) = (r < 0) THEN abs(l) \div abs(r) ELSE -(abs(l) \div abs(r))

bigint_rem(l, r) == l - r * bigint_div(l, r)

RECURSIVE bigint_pow(_, _)
bigint_pow(l, r) == IF r = 0 THEN 1 ELSE l * bigint_pow(l, r - 1)

\* BigInt::to_biguint
to_biguint(r) == IF r >= 0 THEN Some(r) ELSE None

\* a plausible slip: the zero guard written for Div alone, so that % 0 reaches
\* BigInt's own remainder, which panics
apply_binary_div_only(op, l, r) ==
    CASE op = "Add" -> [ok |-> TRUE, val |-> l + r]
      [] op = "Sub" -> [ok |-> TRUE, val |-> l - r]
      [] op = "Mul" -> [ok |-> TRUE, val |-> l * r]
      [] op = "Div" /\ r = 0 -> [ok |-> FALSE, val |-> "DevideByZero"]
      [] op = "Rem" /\ r = 0 -> [ok |-> FALSE, val |-> "Panic"]
      [] op = "Div" /\ r # 0 -> [ok |-> TRUE, val |-> bigint_div(l, r)]
      [] op = "Rem" /\ r # 0 -> [ok |-> TRUE, val |-> bigint_rem(l, r)]
      [] op = "Pow" ->
            IF to_biguint(r) # None
            THEN [ok |-> TRUE, val |-> bigint_pow(l, to_biguint(r)[1])]
            ELSE [ok |-> FALSE, val |-> "NegativePower"]
      [] op = "Assign" -> [ok |-> FALSE, val |-> "Unimplemented"]

\* lines 36-51: match op
apply_binary(op, l, r) ==
    CASE op = "Add" -> [ok |-> TRUE, val |-> l + r]
      [] op = "Sub" -> [ok |-> TRUE, val |-> l - r]
      [] op = "Mul" -> [ok |-> TRUE, val |-> l * r]
      [] op \in {"Div", "Rem"} /\ r = 0 -> [ok |-> FALSE, val |-> "DevideByZero"]
      [] op = "Div" /\ r # 0 -> [ok |-> TRUE, val |-> bigint_div(l, r)]
      [] op = "Rem" /\ r # 0 -> [ok |-> TRUE, val |-> bigint_rem(l, r)]
      [] op = "Pow" ->
            IF to_biguint(r) # None
            THEN [ok |-> TRUE, val |-> bigint_pow(l, to_biguint(r)[1])]
            ELSE [ok |-> FALSE, val |-> "NegativePower"]
      [] op = "Assign" -> [ok |-> FALSE, val |-> "Unimplemented"]

pow_name == <<"p", "o", "w">>

RECURSIVE eval(_, _), eval_assign(_, _, _), eval_operands(_, _, _), eval_binary(_, _, _, _),
          eval_pow_call(_, _)

\* a plausible slip: the target's entry is created (or_default) before the
\* right-hand side is evaluated
eval_assign_entry_first(lhs, rhs, variables) ==
    LET early == IF Tag(lhs) = "Variable" /\ ~has_variable(variables, lhs[2])
                 THEN set_variable(variables, lhs[2], 0) ELSE variables
        r == eval(rhs, early)
    IN  IF ~r.ok THEN r
        ELSE IF Tag(lhs) = "Variable"
             THEN EvOk(r.val, set_variable(r.env, lhs[2], r.val),
                       Append(r.sets, <<lhs[2], r.val>>))
             ELSE EvErr("UnableToAssign", r.env, r.sets)

\* lines 24-33: Binary(lhs, Assign, rhs)
eval_assign(lhs, rhs, variables) ==
    LET r == eval(rhs, variables) IN
    IF ~r.ok THEN r
    ELSE IF Tag(lhs) = "Variable"
         THEN EvOk(r.val, set_variable(r.env, lhs[2], r.val),
                   Append(r.sets, <<lhs[2], r.val>>))
         ELSE EvErr("UnableToAssign", r.env, r.sets)

\* a plausible slip: the operands evaluated right to left
eval_operands_right_first(lhs, rhs, variables) ==
    LET r == eval(rhs, variables) IN
    IF ~r.ok THEN r
    ELSE LET l == eval(lhs, r.env) IN
         IF ~l.ok THEN EvErr(l.val, l.env, r.sets \o l.sets)
         ELSE EvOk(<<l.val, r.val>>, l.env, r.sets \o l.sets)

\* line 35: (lhs.eval(env)?, rhs.eval(env)?), the value a pair <<l, r>>
eval_operands(lhs, rhs, variables) ==
    LET l == eval(lhs, variables) IN
    IF ~l.ok THEN l
    ELSE LET r == eval(rhs, l.env) IN
         IF ~r.ok THEN EvErr(r.val, r.env, l.sets \o r.sets)
         ELSE EvOk(<<l.val, r.val>>, r.env, l.sets \o r.sets)

\* lines 34-52: Binary(lhs, op, rhs), op not Assign
eval_binary(lhs, op, rhs, variables) ==
    LET lr == eval_operands(lhs, rhs, variables) IN
    IF ~lr.ok THEN lr
    ELSE LET v == apply_binary(op, lr.val[1], lr.val[2]) IN
         IF v.ok THEN EvOk(v.val, lr.env, lr.sets) ELSE EvErr(v.val, lr.env, lr.sets)

\* a plausible slip: the arity is checked but the sign of the exponent is not
eval_pow_call_unchecked(args, variables) ==
    IF Len(args) = 2
    THEN LET l == eval(args[1], variables) IN
         IF ~l.ok THEN l
         ELSE LET r == eval(args[2], l.env) IN
              IF ~r.ok THEN EvErr(r.val, r.env, l.sets \o r.sets)
              ELSE EvOk(bigint_pow(l.val, abs(r.val)), r.env, l.sets \o r.sets)
    ELSE EvErr("InvalidArgumentLength", variables, <<>>)

\* lines 59-71: Call("pow", args)
eval_pow_call(args, variables) ==
    IF Len(args) = 2
    THEN LET l == eval(args[1], variables) IN
         IF ~l.ok THEN l
         ELSE LET r == eval(args[2], l.env) IN
              IF ~r.ok THEN EvErr(r.val, r.env, l.sets \o r.sets)
              ELSE IF to_biguint(r.val) # None
                   THEN EvOk(bigint_pow(l.val, to_biguint(r.val)[1]), r.env, l.sets \o r.sets)
                   ELSE EvErr("NegativePower", r.env, l.sets \o r.sets)
    ELSE EvErr("InvalidArgumentLength", variables, <<>>)

eval(e, variables) ==
    CASE Tag(e) = "Int" -> EvOk(e[2], variables, <<>>)
      [] Tag(e) = "Binary" /\ e[3] = "Assign" -> eval_assign(e[2], e[4], variables)
      [] Tag(e) = "Binary" /\ e[3] # "Assign" -> eval_binary(e[2], e[3], e[4], variables)
      [] Tag(e) = "Unary" ->
            LET v == eval(e[3], variables) IN
            IF ~v.ok THEN v
            ELSE IF e[2] = "Plus" THEN v ELSE EvOk(-v.val, v.env, v.sets)
      [] Tag(e) = "Paren" -> eval(e[2], variables)
      [] Tag(e) = "Variable" ->
            LET v == get_variable(variables, e[2]) IN
            IF v.ok THEN EvOk(v.val, variables, <<>>) ELSE EvErr(v.val, variables, <<>>)
      [] Tag(e) = "Call" /\ e[2] = pow_name -> eval_pow_call(e[3], variables)
      [] Tag(e) = "Call" /\ e[2] # pow_name -> EvErr("Unimplemented", variables, <<>>)

\* ---------------------------------------------------------------------------
\* The reference grammar of expressions, production by production:
\*   expr := assign
\*   assign := additive [ "=" assign ]
\*   additive := multiplicative { ("+" | "-") multiplicative }
\*   multiplicative := exponent { ("*" | "/" | "%") exponent }
\*   exponent := unary [ "**" exponent ]
\*   unary := ("+" | "-") unary | primary
\*   primary := INT | IDENT [ "(" args ")" ] | "(" expr ")"
\*   args := [ expr { "," expr } ]
\* The grammar is LL(1), so the descent below derives a token sequence exactly
\* when the grammar does.  It is what the parser is compared with, not a part of
\* the program.
\* ---------------------------------------------------------------------------
GNo(input) == [ok |-> FALSE, val |-> "NotDerivable", rest |-> input]
NextIs(input, kinds) == input # <<>> /\ Kind(Head(input)) \in kinds

RECURSIVE G_expr(_), G_assign(_), G_additive(_), G_additive_tail(_, _),
          G_multiplicative(_), G_multiplicative_tail(_, _), G_exponent(_), G_unary(_),
          G_primary(_), G_args(_), G_args_tail(_, _)

G_expr(input) == G_assign(input)

G_assign(input) ==
    LET l == G_additive(input) IN
    IF ~l.ok THEN l
    ELSE IF NextIs(l.rest, {"Equal"})
         THEN LET r == G_assign(Tail(l.rest)) IN
              IF ~r.ok THEN r ELSE Ok(Binary(l.val, "Assign", r.val), r.rest)
         ELSE l

G_additive_tail(input, acc) ==
    IF NextIs(input, {"Plus", "Minus"})
    THEN LET r == G_multiplicative(Tail(input)) IN
         IF ~r.ok THEN r
         ELSE G_additive_tail(r.rest,
                  Binary(acc, IF Kind(Head(input)) = "Plus" THEN "Add" ELSE "Sub", r.val))
    ELSE Ok(acc, input)

G_additive(input) ==
    LET l == G_multiplicative(input) IN
    IF ~l.ok THEN l ELSE G_additive_tail(l.rest, l.val)

G_multiplicative_tail(input, acc) ==
    IF NextIs(input, {"Ast", "Slash", "Percent"})
    THEN LET r == G_exponent(Tail(input))
             op == CASE Kind(Head(input)) = "Ast" -> "Mul"
                     [] Kind(Head(input)) = "Slash" -> "Div"
                     [] OTHER -> "Rem"
         IN  IF ~r.ok THEN r ELSE G_multiplicative_tail(r.rest, Binary(acc, op, r.val))
    ELSE Ok(acc, input)

G_multiplicative(input) ==
    LET l == G_exponent(input) IN
    IF ~l.ok THEN l ELSE G_multiplicative_tail(l.rest, l.val)

G_exponent(input) ==
    LET l == G_unary(input) IN
    IF ~l.ok THEN l
    ELSE IF NextIs(l.rest, {"AstAst"})
         THEN LET r == G_exponent(Tail(l.rest)) IN
              IF ~r.ok THEN r ELSE Ok(Binary(l.val, "Pow", r.val), r.rest)
         ELSE l

G_unary(input) ==
    IF NextIs(input, {"Plus", "Minus"})
    THEN LET e == G_unary(Tail(input)) IN
         IF ~e.ok THEN e
         ELSE Ok(Unary(IF Kind(Head(input)) = "Plus" THEN "Plus" ELSE "Minus", e.val), e.rest)
    ELSE G_primary(input)

G_args_tail(input, acc) ==
    IF NextIs(input, {"Comma"})
    THEN LET e == G_expr(Tail(input)) IN
         IF ~e.ok THEN e ELSE G_args_tail(e.rest, Append(acc, e.val))
    ELSE Ok(acc, input)

G_args(input) ==
    IF NextIs(input, {"RParen"}) THEN Ok(<<>>, input)
    ELSE LET e == G_expr(input) IN
         IF ~e.ok THEN e ELSE G_args_tail(e.rest, <<e.val>>)

G_primary(input) ==
    CASE NextIs(input, {"NumLit"}) ->
            Ok(Int_(str_to_int(Lit(Head(input)))), Tail(input))
      [] NextIs(input, {"VarLit"}) ->
            IF NextIs(Tail(input), {"LParen"})
            THEN LET a == G_args(Tail(Tail(input))) IN
                 IF ~a.ok THEN a
                 ELSE IF NextIs(a.rest, {"RParen"})
                      THEN Ok(Call(Lit(Head(input)), a.val), Tail(a.rest))
                      ELSE GNo(a.rest)
            ELSE Ok(Variable(Lit(Head(input))), Tail(input))
      [] NextIs(input, {"LParen"}) ->
            LET e == G_expr(Tail(input)) IN
            IF ~e.ok THEN e
            ELSE IF NextIs(e.rest, {"RParen"}) THEN Ok(Paren(e.val), Tail(e.rest))
                 ELSE GNo(e.rest)
      [] OTHER -> GNo(input)

\* the whole sequence is an expr of the grammar
Derivable(ts) == LET g == G_expr(ts) IN g.ok /\ g.rest = <<>>
GrammarTree(ts) == G_expr(ts).val

(***************************************************************************)
(* Bounds and inputs                                                       *)
(***************************************************************************)
MaxTokens == 4
MaxOps == 3
MaxText == 4
MaxLit == 2

NumTok == Token("NumLit", <<"1">>)
VarTok == Token("VarLit", <<"f">>)
OpKinds == {"Plus", "Minus", "Ast", "AstAst", "Slash", "Percent", "Equal"}
TokenAlphabet == {NumTok, VarTok} \cup {Sym(k) : k \in OpKinds \cup {"LParen", "RParen", "Comma"}}

\* term (op term)^n: terms (a number or an identifier) joined by binary operators
IsOpChain(ts) ==
    /\ Len(ts) % 2 = 1
    /\ \A i \in 1..Len(ts) :
          IF i % 2 = 1 THEN ts[i] \in {NumTok, VarTok} ELSE Kind(ts[i]) \in OpKinds

\* f ( 1 ...: a call with a first argument, followed one token further
IsCallPrefix(ts) ==
    Len(ts) >= 3 /\ ts[1] = VarTok /\ ts[2] = Sym("LParen") /\ ts[3] = NumTok

NotRun == [ok |-> FALSE, val |-> "NotRun", rest |-> <<>>]

(***************************************************************************)
(* The parser on bounded token sequences: the caller builds a token slice  *)
(* and hands it to the parser.                                             *)
(***************************************************************************)
InitParse ==
    /\ toks = <<>>
    /\ parsed = NotRun
    /\ pc = "tokens"
    /\ text = <<>> /\ scanned = ScanOk(<<>>)
    /\ env = {} /\ expr = Int_(0) /\ result = NotRun /\ prevEnv = {} /\ latest = <<>>
    /\ stream = <<>> /\ stack = <<>> /\ ret = None

PushToken ==
    /\ pc = "tokens"
    /\ Len(toks) < MaxTokens + (IF IsCallPrefix(toks) THEN 1 ELSE 0)
    /\ \E t \in TokenAlphabet : toks' = Append(toks, t)
    /\ UNCHANGED <<text, scanned, parsed, pc, env, expr, result, prevEnv, latest>>
    /\ UNCHANGED <<stream, stack, ret>>

PushOperand ==
    /\ pc = "tokens"
    /\ IsOpChain(toks)
    /\ Len(toks) < 2 * MaxOps + 1
    /\ \E o \in OpKinds, t \in {NumTok, VarTok} : toks' = toks \o <<Sym(o), t>>
    /\ UNCHANGED <<text, scanned, parsed, pc, env, expr, result, prevEnv, latest>>
    /\ UNCHANGED <<stream, stack, ret>>

Parse ==
    /\ pc = "tokens"
    /\ parsed' = parse_tokens(toks)
    /\ pc' = "parsed"
    /\ UNCHANGED <<text, scanned, toks, env, expr, result, prevEnv, latest>>
    /\ UNCHANGED <<stream, stack, ret>>

NextParse == PushToken \/ PushOperand \/ Parse

SpecParse == InitParse /\ [][NextParse]_vars

\* ---------------------------------------------------------------------------
\* The scanner as section 4.1 of the specification describes it, character by
\* character: a digit run is one NumLit, an identifier start followed by the
\* maximal run of identifier continuations is one VarLit, and scanning goes on
\* at the first character after the run.  It is what tokens() is compared with,
\* not a part of the program.
\* ---------------------------------------------------------------------------
\* how many leading characters of s are in the class; in_class[i] tells it of
\* the i-th
run_len(in_class) ==
    CHOOSE n \in 0..Len(in_class) :
        (\A i \in 1..n : in_class[i]) /\ (n = Len(in_class) \/ ~in_class[n + 1])

digit(s) == [i \in 1..Len(s) |-> is_ascii_digit(s[i])]
xid_continue(s) == [i \in 1..Len(s) |-> is_xid_continue(s[i])]

drop(s, n) == SubSeq(s, n + 1, Len(s))
take(s, n) == SubSeq(s, 1, n)

RECURSIVE ref_scan(_, _)
ref_scan(s, buffer) ==
    IF s = <<>> THEN ScanOk(buffer)
    ELSE LET c == Head(s) IN
         CASE is_ascii_digit(c) ->
                LET n == run_len(digit(s)) IN
                ref_scan(drop(s, n), Append(buffer, Token("NumLit", take(s, n))))
           [] is_symbol(c) -> ref_scan(Tail(s), Append(buffer, Sym(symbol_kind(c))))
           [] c = "*" ->
                IF starts_with_astast(s) THEN ref_scan(drop(s, 2), Append(buffer, Sym("AstAst")))
                ELSE ref_scan(Tail(s), Append(buffer, Sym("Ast")))
           [] is_ascii_whitespace(c) -> ref_scan(Tail(s), buffer)
           [] is_xid_start(c) ->
                LET n == 1 + run_len(xid_continue(Tail(s))) IN
                ref_scan(drop(s, n), Append(buffer, Token("VarLit", take(s, n))))
           [] OTHER -> ScanErr

(***************************************************************************)
(* The scanner on bounded texts: the caller types a text and scans it.     *)
(***************************************************************************)
ScanAlphabet == {"a", "1", "+", "*", " ", "_", "@", "U+00E9", "U+3042", "U+0301", "U+00D7"}

InitScan ==
    /\ text = <<>>
    /\ scanned = ScanOk(<<>>)
    /\ pc = "text"
    /\ toks = <<>> /\ parsed = NotRun
    /\ env = {} /\ expr = Int_(0) /\ result = NotRun /\ prevEnv = {} /\ latest = <<>>
    /\ stream = <<>> /\ stack = <<>> /\ ret = None

TypeChar ==
    /\ pc = "text"
    /\ Len(text) < MaxText
    /\ \E c \in ScanAlphabet : text' = Append(text, c)
    /\ UNCHANGED <<scanned, toks, parsed, pc, env, expr, result, prevEnv, latest>>
    /\ UNCHANGED <<stream, stack, ret>>

Scan ==
    /\ pc = "text"
    /\ scanned' = tokens(text)
    /\ pc' = "scanned"
    /\ UNCHANGED <<text, toks, parsed, env, expr, result, prevEnv, latest>>
    /\ UNCHANGED <<stream, stack, ret>>

NextScan == TypeChar \/ Scan

SpecScan == InitScan /\ [][NextScan]_vars

(***************************************************************************)
(* The session (main.rs): one Environment, a loop that reads a line,       *)
(* parses it and evaluates it.  SubmitExpr is a caller of the library      *)
(* handing eval a tree of its own.                                         *)
(***************************************************************************)
a_name == <<"a">>
b_name == <<"b">>
foo_name == <<"f", "o", "o">>
VarNames == {a_name, b_name, <<"x">>}

Ints == {Int_(n) : n \in 0..MaxLit}
Leaves == Ints \cup {Variable(a_name), Variable(b_name)}
Atoms ==
    Leaves
    \cup {Unary("Minus", i) : i \in Ints}
    \cup {Binary(Variable(v), "Assign", i) : v \in {a_name, b_name}, i \in Ints}
    \cup {Paren(Variable(a_name)), Unary("Plus", Variable(b_name))}
BinaryOps == {"Add", "Sub", "Mul", "Div", "Rem", "Pow", "Assign"}
ExprInputs ==
    Atoms
    \cup {Binary(l, op, r) : l \in Atoms, op \in BinaryOps, r \in Atoms}
    \cup {Call(n, args) : n \in {pow_name, foo_name},
                          args \in {<<>>} \cup {<<x>> : x \in Atoms}
                                   \cup {<<x, y>> : x \in Atoms, y \in Atoms}
                                   \cup {<<x, y, z>> : x \in Ints, y \in Ints, z \in Ints}}

LineInputs ==
    {<<"a", " ", "=", " ", "1", " ", "+", " ", "2">>,
     <<"a">>,
     <<"x">>,
     <<"(", "a", " ", "=", " ", "1", ")", " ", "+", " ", "a">>,
     <<"a", " ", "+", " ", "(", "a", " ", "=", " ", "1", ")">>,
     <<"a", " ", "=", " ", "a">>,
     <<"b", " ", "=", " ", "a", " ", "=", " ", "2">>,
     <<"1", " ", "/", " ", "0">>,
     <<"1", " ", "%", " ", "0">>,
     <<"2", " ", "*", "*", " ", "-", "1">>,
     <<"p", "o", "w", "(", "2", ",", " ", "-", "1", ")">>,
     <<"p", "o", "w", "(", "2", ",", " ", "3", ")">>,
     <<"f", "o", "o", "(", "1", ")">>,
     <<"2", " ", "*", "*", " ", "3", " ", "*", "*", " ", "2">>,
     <<"(", "a", ")", " ", "=", " ", "1">>,
     <<"-", "-", "5">>,
     <<"(", "1", " ", "+", " ", "2">>,
     <<"@">>,
     <<"a", "U+00E9", "+", "1">>}

EvNotRun == EvErr("NotRun", {}, <<>>)

RECURSIVE record_sets(_, _)
\* the last value set_variable was given for each name, after the calls in sets
record_sets(last, sets) ==
    IF sets = <<>> THEN last
    ELSE record_sets([last EXCEPT ![Head(sets)[1]] = Some(Head(sets)[2])], Tail(sets))

Init ==
    /\ pc = "prompt"
    /\ text = <<>>
    /\ env = {}
    /\ expr = Int_(0)
    /\ result = EvNotRun
    /\ prevEnv = {}
    /\ latest = [n \in VarNames |-> None]
    /\ scanned = ScanOk(<<>>) /\ toks = <<>> /\ parsed = NotRun
    /\ stream = <<>> /\ stack = <<>> /\ ret = None

\* stdin().read_line(&mut input) and parse_from_str(&input)
ReadLine ==
    /\ pc = "prompt"
    /\ \E line \in LineInputs :
          /\ text' = line \o <<"\n">>
          /\ parsed' = parse_from_str(line \o <<"\n">>)
    /\ pc' = "line"
    /\ UNCHANGED <<scanned, toks, env, expr, result, prevEnv, latest>>
    /\ UNCHANGED <<stream, stack, ret>>

\* Ok(expr) => expr
LineParsed ==
    /\ pc = "line"
    /\ parsed.ok
    /\ expr' = parsed.val
    /\ pc' = "eval"
    /\ UNCHANGED <<text, scanned, toks, parsed, env, result, prevEnv, latest>>
    /\ UNCHANGED <<stream, stack, ret>>

\* Err(err) => continue, back to input.clear()
LineRejected ==
    /\ pc = "line"
    /\ ~parsed.ok
    /\ parsed.val # "Panic"
    /\ text' = <<>>
    /\ parsed' = NotRun
    /\ pc' = "prompt"
    /\ UNCHANGED <<scanned, toks, env, expr, result, prevEnv, latest>>
    /\ UNCHANGED <<stream, stack, ret>>

\* the scanner panicked inside parse_from_str: the process ends
LinePanicked ==
    /\ pc = "line"
    /\ ~parsed.ok
    /\ parsed.val = "Panic"
    /\ pc' = "aborted"
    /\ UNCHANGED <<text, scanned, toks, parsed, env, expr, result, prevEnv, latest>>
    /\ UNCHANGED <<stream, stack, ret>>

\* a caller with a tree of its own: expr.eval(&mut env)
SubmitExpr ==
    /\ pc = "prompt"
    /\ \E e \in ExprInputs : expr' = e
    /\ pc' = "eval"
    /\ UNCHANGED <<text, scanned, toks, parsed, env, result, prevEnv, latest>>
    /\ UNCHANGED <<stream, stack, ret>>

\* expr.eval(&mut env), its outcome printed
Evaluate ==
    /\ pc = "eval"
    /\ LET r == eval(expr, env) IN
          /\ result' = r
          /\ env' = r.env
          /\ latest' = record_sets(latest, r.sets)
    /\ prevEnv' = env
    /\ pc' = "printed"
    /\ UNCHANGED <<text, scanned, toks, parsed, expr>>
    /\ UNCHANGED <<stream, stack, ret>>

\* the next iteration: input.clear(); the iteration's locals are gone
Prompt ==
    /\ pc = "printed"
    /\ text' = <<>>
    /\ expr' = Int_(0)
    /\ result' = EvNotRun
    /\ prevEnv' = {}
    /\ parsed' = NotRun
    /\ pc' = "prompt"
    /\ UNCHANGED <<scanned, toks, env, latest>>
    /\ UNCHANGED <<stream, stack, ret>>

Next ==
    \/ ReadLine
    \/ LineParsed
    \/ LineRejected
    \/ LinePanicked
    \/ SubmitExpr
    \/ Evaluate
    \/ Prompt

Spec == Init /\ [][Next]_vars

(***************************************************************************)
(* Properties of the parser (SpecParse)                                    *)
(***************************************************************************)
Tok(kind) == Sym(kind)

\* C1: a token sequence is accepted exactly when the reference grammar derives
\* the whole of it as an expr (so f(1,), f(1+), f(-) and f(() are rejected).
C1_AcceptsExactlyTheGrammar ==
    pc = "parsed" => (parsed.ok <=> Derivable(toks))

\* C2: whenever the token sequence is an expr of the reference grammar, and so
\* for every chain of terms joined by binary operators, the parser accepts it
\* and builds the grammar's tree: tighter operators nest deeper, + - * / %
\* group to the left, ** and = group to the right.
C2_TreeIsTheGrammarTree ==
    pc = "parsed" /\ Derivable(toks) => parsed.ok /\ parsed.val = GrammarTree(toks)

\* f = 1 ** 1 ** 1 is parsed as f = (1 ** (1 ** 1))
C2_Witness ==
    /\ pc = "parsed"
    /\ toks = <<VarTok, Tok("Equal"), NumTok, Tok("AstAst"), NumTok, Tok("AstAst"), NumTok>>
    /\ parsed.ok
    /\ parsed.val = Binary(Variable(<<"f">>), "Assign",
                           Binary(Int_(1), "Pow", Binary(Int_(1), "Pow", Int_(1))))

\* C9: no parse ends with the ExpectedBinary error kind.
C9_ExpectedBinaryNeverSurfaces ==
    pc = "parsed" => ~(~parsed.ok /\ parsed.val = "ExpectedBinary")

\* 1 1: the peek after the first number raises ExpectedBinary inside
\* peek_precedence, the loop ends, and the parse fails with another kind
C9_Witness ==
    /\ pc = "parsed"
    /\ toks = <<NumTok, NumTok>>
    /\ ~BinaryOp_peek(Tail(toks)).ok
    /\ BinaryOp_peek(Tail(toks)).val = "ExpectedBinary"
    /\ ~parsed.ok
    /\ parsed.val = "UnexpectedToken"

(***************************************************************************)
(* Properties of the scanner (SpecScan)                                    *)
(***************************************************************************)
\* C8: the scanner ends only with tokens or UnexpectedToken, and an identifier
\* start yields one VarLit holding it and the maximal run of identifier
\* continuations after it, scanning going on right after the run, also when
\* the identifier holds multi-byte characters.
C8_IdentifiersAreMaximalRuns ==
    pc = "scanned" => scanned.kind \in {"Ok", "Err"} /\ scanned = ref_scan(text, <<>>)

(***************************************************************************)
(* Properties of the evaluator and the session (Spec)                      *)
(***************************************************************************)
Printed == pc = "printed"
IsAssign(e) == Tag(e) = "Binary" /\ e[3] = "Assign"
Failed(r, kind) == ~r.ok /\ r.val = kind
binding(variables, n) == {p \in variables : p[1] = n}
Line(chars) == chars \o <<"\n">>

RECURSIVE AssignFree(_)
\* no assignment anywhere in e
AssignFree(e) ==
    CASE Tag(e) \in {"Int", "Variable"} -> TRUE
      [] Tag(e) = "Binary" -> e[3] # "Assign" /\ AssignFree(e[2]) /\ AssignFree(e[4])
      [] Tag(e) = "Unary" -> AssignFree(e[3])
      [] Tag(e) = "Paren" -> AssignFree(e[2])
      [] Tag(e) = "Call" -> \A i \in 1..Len(e[3]) : AssignFree(e[3][i])

\* C3, as claimed: when the evaluation of an assignment fails, the variables
\* are what they were before the call.
C3_FailedAssignmentLeavesVariables ==
    Printed /\ IsAssign(expr) /\ ~result.ok => env = prevEnv

\* C3, amended: when the evaluation of an assignment fails, the assignment
\* itself has bound nothing: the variables are those the evaluation of its
\* right-hand side alone leaves, and the starting ones when the right-hand side
\* holds no assignment.
C3_FailedAssignmentBindsNothing ==
    Printed /\ IsAssign(expr) /\ ~result.ok =>
        /\ env = eval(expr[4], prevEnv).env
        /\ AssignFree(expr[4]) => env = prevEnv

\* 1 = (a = 0) and the like: UnableToAssign after the nested assignment committed
C3_Witness ==
    /\ Printed
    /\ IsAssign(expr)
    /\ Failed(result, "UnableToAssign")
    /\ env # prevEnv

\* C4: a call of any name but pow fails with UndefinedFunction.
C4_UnknownCallIsUndefinedFunction ==
    Printed /\ Tag(expr) = "Call" /\ expr[2] # pow_name => Failed(result, "UndefinedFunction")

\* C5: a variable is bound exactly when an assignment to it has committed, to
\* the value of the latest one; a committing assignment to a name changes no
\* other binding; a Variable evaluates to its value, or fails with
\* UndefinedVariable when the name was never assigned.
C5_BindingsAreLatestAssignments ==
    /\ \A p \in env : p[1] \in VarNames
    /\ \A n \in VarNames :
          IF latest[n] = None THEN binding(env, n) = {}
          ELSE binding(env, n) = {<<n, latest[n][1]>>}
    /\ Printed /\ IsAssign(expr) /\ Tag(expr[2]) = "Variable" /\ result.ok =>
          /\ binding(env, expr[2][2]) = {<<expr[2][2], result.val>>}
          /\ \A n \in VarNames \ {expr[2][2]} :
                binding(env, n) = binding(eval(expr[4], prevEnv).env, n)
    /\ Printed /\ Tag(expr) = "Variable" =>
          /\ env = prevEnv
          /\ IF latest[expr[2]] = None THEN Failed(result, "UndefinedVariable")
             ELSE result.ok /\ result.val = latest[expr[2]][1]

\* a evaluates to 3 after a = 1 + 2
C5_Witness ==
    /\ Printed
    /\ expr = Variable(a_name)
    /\ result.ok
    /\ result.val = 3
    /\ latest[a_name] = Some(3)

\* C6: when both operands of / or % evaluate, the evaluation fails with
\* DivideByZero exactly when the right value is zero, whatever the left value,
\* and with two literals the variables are left as they were.
C6_DivideByZeroIffRightIsZero ==
    Printed /\ Tag(expr) = "Binary" /\ expr[3] \in {"Div", "Rem"} =>
        LET l == eval(expr[2], prevEnv)
            r == eval(expr[4], l.env)
        IN  l.ok /\ r.ok =>
               /\ Failed(result, "DevideByZero") <=> r.val = 0
               /\ r.val # 0 => result.ok
               /\ Tag(expr[2]) = "Int" /\ Tag(expr[4]) = "Int" => env = prevEnv

\* 1 % 0
C6_Witness ==
    /\ Printed
    /\ text = Line(<<"1", " ", "%", " ", "0">>)
    /\ expr = Binary(Int_(1), "Rem", Int_(0))
    /\ Failed(result, "DevideByZero")
    /\ env = prevEnv

SameOutcome(r1, r2) == r1.ok = r2.ok /\ r1.val = r2.val /\ r1.env = r2.env

\* C7: pow(x, y) and x ** y end alike from the same variables: the same value
\* or the same error kind, and the same variables afterwards.
C7_PowCallIsPowOperator ==
    /\ Printed /\ Tag(expr) = "Call" /\ expr[2] = pow_name /\ Len(expr[3]) = 2 =>
          SameOutcome(result, eval(Binary(expr[3][1], "Pow", expr[3][2]), prevEnv))
    /\ Printed /\ Tag(expr) = "Binary" /\ expr[3] = "Pow" =>
          SameOutcome(result, eval(Call(pow_name, <<expr[2], expr[4]>>), prevEnv))

\* pow(2, -1)
C7_Witness ==
    /\ Printed
    /\ text = Line(<<"p", "o", "w", "(", "2", ",", " ", "-", "1", ")">>)
    /\ expr = Call(pow_name, <<Int_(2), Unary("Minus", Int_(1))>>)
    /\ Failed(result, "NegativePower")

\* C10: the left operand is evaluated before the right one and the first
\* operand error is the one returned, the right operand then not evaluated; an
\* assignment evaluates its right-hand side before it looks at its target.
C10_OperandsLeftToRight ==
    /\ Printed /\ Tag(expr) = "Binary" /\ expr[3] # "Assign" =>
          LET l == eval(expr[2], prevEnv)
              r == eval(expr[4], l.env)
          IN  IF ~l.ok THEN Failed(result, l.val) /\ env = l.env
              ELSE env = r.env /\ (~r.ok => Failed(result, r.val))
    /\ Printed /\ IsAssign(expr) =>
          LET r == eval(expr[4], prevEnv)
          IN  /\ ~r.ok => Failed(result, r.val) /\ env = r.env
              /\ r.ok /\ Tag(expr[2]) # "Variable" =>
                    Failed(result, "UnableToAssign") /\ env = r.env
    /\ Printed /\ ~has_variable(prevEnv, a_name) =>
          /\ text = Line(<<"(", "a", " ", "=", " ", "1", ")", " ", "+", " ", "a">>) =>
                result.ok /\ result.val = 2
          /\ text = Line(<<"a", " ", "+", " ", "(", "a", " ", "=", " ", "1", ")">>) =>
                Failed(result, "UndefinedVariable") /\ ~has_variable(env, a_name)
          /\ text = Line(<<"a", " ", "=", " ", "a">>) =>
                Failed(result, "UndefinedVariable") /\ ~has_variable(env, a_name)

\* a + (a = 1) with a unbound
C10_Witness ==
    /\ Printed
    /\ text = Line(<<"a", " ", "+", " ", "(", "a", " ", "=", " ", "1", ")">>)
    /\ ~has_variable(prevEnv, a_name)
    /\ Failed(result, "UndefinedVariable")
    /\ ~has_variable(env, a_name)


(***************************************************************************)
(* The parser step by step.  The recursion of parse_expr, parse_rexpr and  *)
(* parse_unary is an explicit stack of activation records; a step runs the *)
(* top activation from where it stands to its next call, loop head or      *)
(* return.  peek, consume and the parse of a BinaryOp, a UnaryOp or a      *)
(* BigInt have no loop and no recursion and are taken within a step.       *)
(***************************************************************************)
MaxFeed == 4
MaxChain == 3

\* An activation record: the function, where it stands, and its locals.
\* iter and inner are the number of tokens left when the current iteration
\* of the function's loop (lines 179 and 221) and of parse_rexpr's inner loop
\* (line 186) began.
Frame(fn) ==
    [fn |-> fn, at |-> "start", lhs |-> None, base |-> PrecAny, op |-> "Add", rhs |-> None,
     uop |-> "Plus", ident |-> <<>>, args |-> <<>>, iter |-> 0, inner |-> 0]

\* a plausible slip: the recursive call asking for strictly tighter operators,
\* so that it gives back the operand untouched
rexpr_frame_tighter(lhs, base) ==
    [Frame("parse_rexpr") EXCEPT !.at = "loop", !.lhs = lhs, !.base = base + 1]

\* the activation of parse_rexpr(input, lhs, base)
rexpr_frame(lhs, base) ==
    [Frame("parse_rexpr") EXCEPT !.at = "loop", !.lhs = lhs, !.base = base]

Top == stack[Len(stack)]

Running(fn, at) == pc = "parsing" /\ stack # <<>> /\ Top.fn = fn /\ Top.at = at

Returned(fn, at) == Running(fn, at) /\ ret # None

\* the ParseResult of a function, without the stream
Value(v) == [ok |-> TRUE, val |-> v]
Failure(e) == [ok |-> FALSE, val |-> e]

\* the top activation goes on as f
Goto(f) == stack' = [stack EXCEPT ![Len(stack)] = f] /\ ret' = None

\* the top activation, standing as f, calls a function
CallFrom(f, callee) == stack' = Append([stack EXCEPT ![Len(stack)] = f], callee) /\ ret' = None

\* the top activation returns r to its caller
Return(r) == stack' = SubSeq(stack, 1, Len(stack) - 1) /\ ret' = Some(r)

StepAlphabet ==
    {NumTok, VarTok} \cup {Sym(k) : k \in {"Plus", "AstAst", "Equal", "LParen", "RParen", "Comma"}}

ChainOps == {"Plus", "Ast", "AstAst", "Equal"}

InitSteps ==
    /\ toks = <<>>
    /\ parsed = NotRun
    /\ pc = "tokens"
    /\ stream = <<>> /\ stack = <<>> /\ ret = None
    /\ text = <<>> /\ scanned = ScanOk(<<>>)
    /\ env = {} /\ expr = Int_(0) /\ result = NotRun /\ prevEnv = {} /\ latest = <<>>

Feed ==
    /\ pc = "tokens"
    /\ Len(toks) < MaxFeed + (IF IsCallPrefix(toks) THEN 1 ELSE 0)
    /\ \E t \in StepAlphabet : toks' = Append(toks, t)
    /\ UNCHANGED <<text, scanned, parsed, pc, env, expr, result, prevEnv, latest>>
    /\ UNCHANGED <<stream, stack, ret>>

FeedOperand ==
    /\ pc = "tokens"
    /\ IsOpChain(toks)
    /\ Len(toks) < 2 * MaxChain + 1
    /\ \E o \in ChainOps : toks' = toks \o <<Sym(o), NumTok>>
    /\ UNCHANGED <<text, scanned, parsed, pc, env, expr, result, prevEnv, latest>>
    /\ UNCHANGED <<stream, stack, ret>>

\* the chain as the second argument of a call: f ( 1 , chain )
FeedCall ==
    /\ pc = "tokens"
    /\ IsOpChain(toks)
    /\ toks' = <<VarTok, Sym("LParen"), NumTok, Sym("Comma")>> \o toks \o <<Sym("RParen")>>
    /\ UNCHANGED <<text, scanned, parsed, pc, env, expr, result, prevEnv, latest>>
    /\ UNCHANGED <<stream, stack, ret>>

\* parse.rs line 11 and the call of line 12: TokenStream::new(&tokens), stream.parse()
StartParse ==
    /\ pc = "tokens"
    /\ stream' = toks
    /\ stack' = <<Frame("parse_expr")>>
    /\ ret' = None
    /\ pc' = "parsing"
    /\ UNCHANGED <<text, scanned, toks, parsed, env, expr, result, prevEnv, latest>>

\* parse.rs lines 12-14: the ? on the parse, stream.eof()?, Ok(t)
FinishParse ==
    /\ pc = "parsing"
    /\ stack = <<>>
    /\ ret # None
    /\ LET t == ret[1] IN
       parsed' = IF ~t.ok THEN Err(t.val, stream)
                 ELSE LET e == eof(stream) IN IF ~e.ok THEN e ELSE Ok(t.val, e.rest)
    /\ pc' = "returned"
    /\ UNCHANGED <<text, scanned, toks, env, expr, result, prevEnv, latest, stream, stack, ret>>

\* parse_expr, line 174: the call of parse_unary
ExprStart ==
    /\ Running("parse_expr", "start")
    /\ CallFrom([Top EXCEPT !.at = "lhs"], Frame("parse_unary"))
    /\ UNCHANGED <<text, scanned, toks, parsed, pc, env, expr, result, prevEnv, latest, stream>>

\* parse_expr, lines 174-175: the ? on lhs, then the call of parse_rexpr
ExprLhs ==
    /\ Returned("parse_expr", "lhs")
    /\ IF ret[1].ok
       THEN CallFrom([Top EXCEPT !.at = "rexpr"], rexpr_frame(ret[1].val, PrecAny))
       ELSE Return(ret[1])
    /\ UNCHANGED <<text, scanned, toks, parsed, pc, env, expr, result, prevEnv, latest, stream>>

\* parse_expr, line 175: what parse_rexpr returned is returned
ExprReturn ==
    /\ Returned("parse_expr", "rexpr")
    /\ Return(ret[1])
    /\ UNCHANGED <<text, scanned, toks, parsed, pc, env, expr, result, prevEnv, latest, stream>>

\* parse_rexpr, lines 179-181 and 195: no operator ahead, or one below base
RexprExit ==
    /\ Running("parse_rexpr", "loop")
    /\ LET p == peek_precedence(stream) IN IF p = None THEN TRUE ELSE p[1] < Top.base
    /\ Return(Value(Top.lhs))
    /\ UNCHANGED <<text, scanned, toks, parsed, pc, env, expr, result, prevEnv, latest, stream>>

\* parse_rexpr, lines 179-185: an iteration takes the operator and calls parse_unary
RexprOperator ==
    /\ Running("parse_rexpr", "loop")
    /\ LET p == peek_precedence(stream) IN p # None /\ p[1] >= Top.base
    /\ LET op == BinaryOp_parse(stream) IN
          /\ stream' = op.rest
          /\ IF op.ok
             THEN CallFrom([Top EXCEPT !.at = "rhs", !.op = op.val, !.iter = Len(stream)],
                           Frame("parse_unary"))
             ELSE Return(Failure(op.val))
    /\ UNCHANGED <<text, scanned, toks, parsed, pc, env, expr, result, prevEnv, latest>>

\* parse_rexpr, line 185: the ? on rhs
RexprRhs ==
    /\ Returned("parse_rexpr", "rhs")
    /\ IF ret[1].ok
       THEN Goto([Top EXCEPT !.at = "inner", !.rhs = ret[1].val])
       ELSE Return(ret[1])
    /\ UNCHANGED <<text, scanned, toks, parsed, pc, env, expr, result, prevEnv, latest, stream>>

\* parse_rexpr, lines 186-188: an iteration of the inner loop calls parse_rexpr
RexprAbsorb ==
    /\ Running("parse_rexpr", "inner")
    /\ LET next == peek_precedence(stream) IN
          /\ next # None
          /\ \/ next[1] > precedence(Top.op)
             \/ next[1] = precedence(Top.op) /\ is_right(Top.op)
          /\ CallFrom([Top EXCEPT !.at = "absorb", !.inner = Len(stream)],
                      rexpr_frame(Top.rhs, next[1]))
    /\ UNCHANGED <<text, scanned, toks, parsed, pc, env, expr, result, prevEnv, latest, stream>>

\* parse_rexpr, line 188: the ? on the call, rhs replaced, the inner loop goes round
RexprAbsorbed ==
    /\ Returned("parse_rexpr", "absorb")
    /\ IF ret[1].ok
       THEN Goto([Top EXCEPT !.at = "inner", !.rhs = ret[1].val])
       ELSE Return(ret[1])
    /\ UNCHANGED <<text, scanned, toks, parsed, pc, env, expr, result, prevEnv, latest, stream>>

\* parse_rexpr, lines 186, 189-193: the inner loop ends, lhs becomes the Binary
\* and the outer loop goes round
RexprBuild ==
    /\ Running("parse_rexpr", "inner")
    /\ LET next == peek_precedence(stream) IN
          \/ next = None
          \/ /\ next # None
             /\ ~(next[1] > precedence(Top.op))
             /\ ~(next[1] = precedence(Top.op) /\ is_right(Top.op))
    /\ Goto([Top EXCEPT !.at = "loop", !.lhs = Binary(Top.lhs, Top.op, Top.rhs)])
    /\ UNCHANGED <<text, scanned, toks, parsed, pc, env, expr, result, prevEnv, latest, stream>>

\* parse_unary, line 199: input.peek()? at the end of the input
UnaryEnd ==
    /\ Running("parse_unary", "start")
    /\ ~peek(stream).ok
    /\ Return(Failure(peek(stream).val))
    /\ UNCHANGED <<text, scanned, toks, parsed, pc, env, expr, result, prevEnv, latest, stream>>

\* parse_unary, line 201: a sign is taken, then the call of parse_unary
UnarySign ==
    /\ Running("parse_unary", "start")
    /\ peek(stream).ok
    /\ Kind(peek(stream).val) \in {"Plus", "Minus"}
    /\ LET op == UnaryOp_parse(stream) IN
          /\ stream' = op.rest
          /\ IF op.ok
             THEN CallFrom([Top EXCEPT !.at = "operand", !.uop = op.val], Frame("parse_unary"))
             ELSE Return(Failure(op.val))
    /\ UNCHANGED <<text, scanned, toks, parsed, pc, env, expr, result, prevEnv, latest>>

\* parse_unary, line 201: the ? on the operand, Expr::Unary
UnaryOperand ==
    /\ Returned("parse_unary", "operand")
    /\ IF ret[1].ok
       THEN Return(Value(Unary(Top.uop, ret[1].val)))
       ELSE Return(ret[1])
    /\ UNCHANGED <<text, scanned, toks, parsed, pc, env, expr, result, prevEnv, latest, stream>>

\* parse_unary, line 202: Expr::Int(input.parse()?)
UnaryInt ==
    /\ Running("parse_unary", "start")
    /\ peek(stream).ok
    /\ Kind(peek(stream).val) = "NumLit"
    /\ LET n == BigInt_parse(stream) IN
          /\ stream' = n.rest
          /\ Return(IF n.ok THEN Value(Int_(n.val)) ELSE Failure(n.val))
    /\ UNCHANGED <<text, scanned, toks, parsed, pc, env, expr, result, prevEnv, latest>>

\* parse_unary, lines 203-205: ( is consumed, then input.parse(), that is parse_expr
UnaryParen ==
    /\ Running("parse_unary", "start")
    /\ peek(stream).ok
    /\ Kind(peek(stream).val) = "LParen"
    /\ stream' = consume(stream).rest
    /\ CallFrom([Top EXCEPT !.at = "paren"], Frame("parse_expr"))
    /\ UNCHANGED <<text, scanned, toks, parsed, pc, env, expr, result, prevEnv, latest>>

\* parse_unary, lines 205-210: the ? on the expression, then the closing )
UnaryClose ==
    /\ Returned("parse_unary", "paren")
    /\ IF ~ret[1].ok
       THEN Return(ret[1]) /\ stream' = stream
       ELSE LET c == consume(stream) IN
            /\ stream' = c.rest
            /\ Return(IF ~c.ok THEN Failure(c.val)
                      ELSE IF Kind(c.val) = "RParen" THEN Value(Paren(ret[1].val))
                      ELSE Failure("ExpectedRParen"))
    /\ UNCHANGED <<text, scanned, toks, parsed, pc, env, expr, result, prevEnv, latest>>

\* parse_unary, lines 212-220 and 239: an identifier; with ( after it the
\* argument loop is entered, without it is a Variable
UnaryIdent ==
    /\ Running("parse_unary", "start")
    /\ peek(stream).ok
    /\ Kind(peek(stream).val) = "VarLit"
    /\ LET ident == consume(stream)
           token == peek(ident.rest)
       IN  IF token.ok /\ Kind(token.val) = "LParen"
           THEN /\ stream' = consume(ident.rest).rest
                /\ Goto([Top EXCEPT !.at = "args", !.ident = Lit(ident.val), !.args = <<>>])
           ELSE /\ stream' = ident.rest
                /\ Return(Value(Variable(Lit(ident.val))))
    /\ UNCHANGED <<text, scanned, toks, parsed, pc, env, expr, result, prevEnv, latest>>

\* parse_unary, line 242: any other token
UnaryOther ==
    /\ Running("parse_unary", "start")
    /\ peek(stream).ok
    /\ Kind(peek(stream).val) \notin {"Plus", "Minus", "NumLit", "LParen", "VarLit"}
    /\ Return(Failure("ExpectedUnary"))
    /\ UNCHANGED <<text, scanned, toks, parsed, pc, env, expr, result, prevEnv, latest, stream>>

\* parse_unary, lines 221-222: an iteration of the argument loop calls parse_expr
ArgsLoop ==
    /\ Running("parse_unary", "args")
    /\ CallFrom([Top EXCEPT !.at = "arg", !.iter = Len(stream)], Frame("parse_expr"))
    /\ UNCHANGED <<text, scanned, toks, parsed, pc, env, expr, result, prevEnv, latest, stream>>

\* parse_unary, lines 223-230 and 237: the argument is pushed; a comma sends
\* the loop round, ) ends the call
ArgParsed ==
    /\ Returned("parse_unary", "arg")
    /\ ret[1].ok
    /\ LET c == consume(stream)
           args == Append(Top.args, ret[1].val)
       IN  /\ stream' = c.rest
           /\ IF ~c.ok THEN Return(Failure(c.val))
              ELSE IF Kind(c.val) = "Comma" THEN Goto([Top EXCEPT !.at = "args", !.args = args])
              ELSE IF Kind(c.val) = "RParen" THEN Return(Value(Call(Top.ident, args)))
              ELSE Return(Failure("ExpectedRParen"))
    /\ UNCHANGED <<text, scanned, toks, parsed, pc, env, expr, result, prevEnv, latest>>

\* parse_unary, lines 231-234 and 237: the argument failed; ) ends the call
ArgFailed ==
    /\ Returned("parse_unary", "arg")
    /\ ~ret[1].ok
    /\ LET c == consume(stream) IN
          /\ stream' = c.rest
          /\ Return(IF ~c.ok THEN Failure(c.val)
                    ELSE IF Kind(c.val) = "RParen" THEN Value(Call(Top.ident, Top.args))
                    ELSE Failure("ExpectedRParen"))
    /\ UNCHANGED <<text, scanned, toks, parsed, pc, env, expr, result, prevEnv, latest>>

\* a step of the thread that called parse_from_str
Step ==
    \/ ExprStart \/ ExprLhs \/ ExprReturn
    \/ RexprExit \/ RexprOperator \/ RexprRhs \/ RexprAbsorb \/ RexprAbsorbed \/ RexprBuild
    \/ UnaryEnd \/ UnarySign \/ UnaryOperand \/ UnaryInt \/ UnaryParen \/ UnaryClose
    \/ UnaryIdent \/ UnaryOther
    \/ ArgsLoop \/ ArgParsed \/ ArgFailed
    \/ FinishParse

NextSteps == Feed \/ FeedOperand \/ FeedCall \/ StartParse \/ Step

SpecSteps == InitSteps /\ [][NextSteps]_vars

\* parse_from_str runs on the calling thread with nothing to wait for: while
\* the parser has a step to take, it takes it
FairSteps == SpecSteps /\ WF_vars(Step)


(***************************************************************************)
(* Properties of the stepwise parser (FairSteps)                           *)
(***************************************************************************)
\* activation f goes on as g, from the body of a loop back to its head
GoesRound(f, g, body, head) == f.at = body /\ g.at = head

\* a step that sends a loop round leaves fewer tokens than the iteration began with
IterationConsumes ==
    \A i \in 1..Len(stack) :
       i <= Len(stack') =>
          /\ GoesRound(stack[i], stack'[i], "inner", "loop") => Len(stream') < stack[i].iter
          /\ GoesRound(stack[i], stack'[i], "absorb", "inner") => Len(stream') < stack[i].inner
          /\ GoesRound(stack[i], stack'[i], "arg", "args") => Len(stream') < stack[i].iter

\* C11: parsing always terminates: on every finite token sequence the parse,
\* once started, returns Ok or Err; and every iteration of the operator loop of
\* parse_rexpr, of its inner loop and of the argument loop of parse_unary that
\* does not leave the loop has consumed at least one token.
C11_ParsingTerminates ==
    /\ [][IterationConsumes]_vars
    /\ (pc = "parsing") ~> (pc = "returned" /\ parsed # NotRun)

\* f(1, 1 = 1 ** 1 + 1) has returned: two iterations of the argument loop, one
\* of the operator loop and two of the inner loop
C11_Witness ==
    /\ pc = "returned"
    /\ toks = <<VarTok, Sym("LParen"), NumTok, Sym("Comma"),
                NumTok, Sym("Equal"), NumTok, Sym("AstAst"), NumTok, Sym("Plus"), NumTok,
                Sym("RParen")>>
    /\ parsed.ok
    /\ parsed.val = Call(<<"f">>,
                         <<Int_(1),
                           Binary(Int_(1), "Assign",
                                  Binary(Binary(Int_(1), "Pow", Int_(1)), "Add", Int_(1)))>>)

====
